---------------------------- MODULE Spec2Model ----------------------------
(***************************************************************************)
(* Model of src/src/main.c: the button-triggered CAN "babbling" sample.    *)
(*                                                                         *)
(* One thread (main) sets the devices up and then runs the dispatcher loop *)
(* around k_poll().  Three interrupt-context producers run concurrently    *)
(* with it: button_callback (gives btn_cb_ctx.sem), the CAN controller's   *)
(* receive path (puts accepted frames into rxq) and the controller's       *)
(* transmit-complete path (calls can_tx_callback, which gives              *)
(* tx_queue_sem).  The dispatcher is split at every call that reads or     *)
(* writes state shared with an interrupt.                                  *)
(***************************************************************************)
EXTENDS Integers, Sequences, FiniteSets

(***************************************************************************)
(* Bounds of the model.                                                    *)
(***************************************************************************)
\* number of button edges delivered in one run
MaxEdges == 3
\* number of frames arriving on the bus in one run
MaxArrivals == 2
\* transmit mailboxes of the bus controller (can_send fails when all are busy)
MaxMailboxes == 2
\* largest count/limit an uninitialised struct k_sem is given
MaxGarbage == 2

(***************************************************************************)
(* Program constants.                                                      *)
(***************************************************************************)
\* CONFIG_SAMPLE_CAN_BABBLING_TX_QUEUE_SIZE (main.c:90), the Kconfig default
CONFIG_SAMPLE_CAN_BABBLING_TX_QUEUE_SIZE == 1
\* CAN_MSGQ_DEFINE(rxq, 100u) (main.c:78)
RXQ_MAX_MSGS == 100

CAN_STANDARD_IDENTIFIER == "standard"
CAN_EXTENDED_IDENTIFIER == "extended"
CAN_DATAFRAME == "data"
CAN_REMOTEREQUEST == "remote"

K_POLL_STATE_NOT_READY == "NOT_READY"
K_POLL_STATE_SEM_AVAILABLE == "SEM_AVAILABLE"
K_POLL_STATE_MSGQ_DATA_AVAILABLE == "MSGQ_DATA_AVAILABLE"

NoData == <<0, 0, 0, 0, 0, 0, 0, 0>>

\* width of a standard identifier (main.c:146)
CAN_STD_ID_BITS == 11

\* static const can_frame_t frame (main.c:40-48); 0x7c9 = 1993
frame ==
    [id_type |-> CAN_STANDARD_IDENTIFIER, id |-> 1993, rtr |-> CAN_DATAFRAME,
     fd |-> 0, brs |-> 0, dlc |-> 0, data |-> NoData]

\* can_filter_t filter (main.c:98-103); 0x7cd = 1997
filter ==
    [id_type |-> CAN_STANDARD_IDENTIFIER, rtr_mask |-> 0, id |-> 1997,
     id_mask |-> 1997]

(***************************************************************************)
(* Frames that may appear on the bus: 0x7cd and 0x7ff pass the filter,     *)
(* 0x3cd (973) and the extended frame do not.                              *)
(***************************************************************************)
BusFrames ==
    { [id_type |-> CAN_STANDARD_IDENTIFIER, id |-> 1997, rtr |-> CAN_DATAFRAME,
       dlc |-> 8, data |-> <<1, 2, 3, 4, 5, 6, 7, 8>>],
      [id_type |-> CAN_STANDARD_IDENTIFIER, id |-> 2047, rtr |-> CAN_REMOTEREQUEST,
       dlc |-> 2, data |-> NoData],
      [id_type |-> CAN_STANDARD_IDENTIFIER, id |-> 973, rtr |-> CAN_DATAFRAME,
       dlc |-> 1, data |-> <<9, 0, 0, 0, 0, 0, 0, 0>>],
      [id_type |-> CAN_EXTENDED_IDENTIFIER, id |-> 1997, rtr |-> CAN_DATAFRAME,
       dlc |-> 0, data |-> NoData] }

(***************************************************************************)
(* Bitwise operators on naturals.                                          *)
(***************************************************************************)
RECURSIVE BitAnd(_, _)
BitAnd(a, b) ==
    IF a = 0 \/ b = 0 THEN 0
    ELSE (a % 2) * (b % 2) + 2 * BitAnd(a \div 2, b \div 2)

RECURSIVE BitXor(_, _)
BitXor(a, b) ==
    IF a = 0 THEN b
    ELSE IF b = 0 THEN a
    ELSE ((a + b) % 2) + 2 * BitXor(a \div 2, b \div 2)

RtrBit(rtr) == IF rtr = CAN_REMOTEREQUEST THEN 1 ELSE 0

\* mutant: the controller compares the whole identifier and ignores id_mask
can_filter_match_no_mask(f, flt) ==
    /\ f.id_type = flt.id_type
    /\ f.id = flt.id

\* acceptance test of the controller for the filter handed to
\* can_add_rx_filter_msgq (main.c:98-105)
can_filter_match(f, flt) ==
    /\ f.id_type = flt.id_type
    /\ BitAnd(BitXor(f.id, flt.id), flt.id_mask) = 0
    /\ BitAnd(RtrBit(f.rtr), flt.rtr_mask) = 0

(***************************************************************************)
(* Kernel objects.                                                         *)
(***************************************************************************)
\* mutant: the initial count is set from the limit
k_sem_init_from_limit(initial_count, limit) == [count |-> limit, limit |-> limit]

\* k_sem_init(sem, initial_count, limit)
k_sem_init(initial_count, limit) == [count |-> initial_count, limit |-> limit]

\* mutant: a give that counts every call
k_sem_give_unbounded(sem) == [sem EXCEPT !.count = sem.count + 1]

\* k_sem_give: the count saturates at the limit
k_sem_give(sem) ==
    [sem EXCEPT !.count = IF sem.count # sem.limit THEN sem.count + 1 ELSE sem.count]

\* k_sem_take(sem, K_NO_WAIT) succeeds iff the count is positive
k_sem_take_ok(sem) == sem.count > 0

\* mutant: a take that leaves the count as it was
k_sem_take_peek(sem) == sem

k_sem_take(sem) == [sem EXCEPT !.count = sem.count - 1]

\* events[i].state |= state, as k_poll sets a ready event
set_event_ready(old, state) == IF old = K_POLL_STATE_NOT_READY THEN state ELSE old

\* mutant: the log line takes the identifier from the transmit frame
rx_log_line_tx_id(rx_frame) ==
    [width |-> IF frame.id_type = CAN_STANDARD_IDENTIFIER THEN 3 ELSE 8,
     id |-> frame.id, rtr |-> rx_frame.rtr, dlc |-> rx_frame.dlc,
     data |-> rx_frame.data]

\* the fields LOG_INF prints for a received frame (main.c:183-187); the
\* width of the identifier comes from the transmit frame's id_type
rx_log_line(rx_frame) ==
    [width |-> IF frame.id_type = CAN_STANDARD_IDENTIFIER THEN 3 ELSE 8,
     id |-> rx_frame.id, rtr |-> rx_frame.rtr, dlc |-> rx_frame.dlc,
     data |-> rx_frame.data]

VARIABLES
    pc,             \* position of main
    tx_queue_sem,   \* struct k_sem tx_queue_sem
    btn_sem,        \* struct k_sem btn_cb_ctx.sem
    filter_added,   \* the controller holds the rx filter bound to rxq
    events0,        \* events[0].state
    events1,        \* events[1].state
    rxq,            \* frames buffered in rxq
    in_flight,      \* frames accepted by can_send and not yet completed
    edges,          \* history: button_callback invocations
    coalesced,      \* history: edges since the last successful k_sem_take
    claims,         \* history: successful k_sem_take(&btn_cb_ctx.sem)
    sent_ok,        \* history: can_send calls that returned 0
    sent_err,       \* history: can_send calls that returned an error
    gives,          \* history: k_sem_give(tx_queue_sem) by can_tx_callback
    log_enqueued,   \* history: "CAN frame enqueued" lines
    log_failed,     \* history: "failed to enqueue CAN frame" lines
    arrivals,       \* history: frames seen on the bus
    enqueued,       \* history: frames the controller put into rxq
    reported,       \* history: "received CAN frame" lines
    bus,            \* history: the last frame seen on the bus
    setup_trace,    \* history: the setup calls made and their results
    iter_consumed   \* history: successful k_sem_take/k_msgq_get calls of the
                    \* loop iteration in progress

vars ==
    <<pc, tx_queue_sem, btn_sem, filter_added, events0, events1, rxq, in_flight,
      edges, coalesced, claims, sent_ok, sent_err, gives, log_enqueued,
      log_failed, arrivals, enqueued, reported, bus, setup_trace,
      iter_consumed>>

hist ==
    <<edges, coalesced, claims, sent_ok, sent_err, gives, log_enqueued,
      log_failed, arrivals, enqueued, reported>>

SetupPcs ==
    {"can_ready", "add_filter", "can_start", "btn_sem_init", "btn_ready",
     "pin_configure", "int_configure", "add_callback"}
LoopPcs == {"k_poll", "blocked", "woken", "check0", "take", "send", "reset",
            "check1", "get"}
\* positions at which the thread is registered on the poll events
PollingPcs == {"blocked", "woken"}
\* positions after k_sem_init(&btn_cb_ctx.sem, 0, 1)
BtnSemInitPcs == (SetupPcs \ {"can_ready", "add_filter", "can_start", "btn_sem_init"})
                     \cup LoopPcs

\* no frame has been on the bus yet
NoFrame == [id_type |-> "none"]

UninitSems == [count : 0..MaxGarbage, limit : 0..MaxGarbage]

(***************************************************************************)
(* main entry: tx_queue_sem is initialised by the first statement          *)
(* (main.c:90-91); btn_cb_ctx is an uninitialised automatic variable.      *)
(***************************************************************************)
Init ==
    /\ pc = "can_ready"
    /\ tx_queue_sem = k_sem_init(CONFIG_SAMPLE_CAN_BABBLING_TX_QUEUE_SIZE,
                                 CONFIG_SAMPLE_CAN_BABBLING_TX_QUEUE_SIZE)
    /\ btn_sem \in UninitSems
    /\ filter_added = FALSE
    /\ events0 = K_POLL_STATE_NOT_READY
    /\ events1 = K_POLL_STATE_NOT_READY
    /\ rxq = <<>>
    /\ in_flight = 0
    /\ edges = 0
    /\ coalesced = 0
    /\ claims = 0
    /\ sent_ok = 0
    /\ sent_err = 0
    /\ gives = 0
    /\ log_enqueued = 0
    /\ log_failed = 0
    /\ arrivals = 0
    /\ enqueued = <<>>
    /\ reported = <<>>
    /\ bus = NoFrame
    /\ setup_trace = <<>>
    /\ iter_consumed = 0

(***************************************************************************)
(* Setup (main.c:93-141).  Every step that can fail returns from main.     *)
(***************************************************************************)
SetupNext(p) ==
    CASE p = "can_ready" -> "add_filter"
      [] p = "add_filter" -> "can_start"
      [] p = "can_start" -> "btn_sem_init"
      [] p = "btn_sem_init" -> "btn_ready"
      [] p = "btn_ready" -> "pin_configure"
      [] p = "pin_configure" -> "int_configure"
      [] p = "int_configure" -> "add_callback"
      [] p = "add_callback" -> "k_poll"

\* device_is_ready, can_start (Zephyr 3.2 only), gpio_pin_configure_dt,
\* gpio_pin_interrupt_configure_dt succeed
SetupStepOk ==
    /\ pc \in {"can_ready", "can_start", "btn_ready", "pin_configure",
               "int_configure"}
    /\ pc' = SetupNext(pc)
    /\ setup_trace' = Append(setup_trace, <<pc, "ok">>)
    /\ UNCHANGED <<tx_queue_sem, btn_sem, filter_added, events0, events1, rxq,
                   in_flight, hist, bus, iter_consumed>>

\* mutant: a failed setup call is reported but main goes on
SetupStepFail_no_return ==
    /\ pc \in {"can_ready", "add_filter", "can_start", "btn_ready",
               "pin_configure", "int_configure"}
    /\ pc' = SetupNext(pc)
    /\ setup_trace' = Append(setup_trace, <<pc, "failed">>)
    /\ UNCHANGED <<tx_queue_sem, btn_sem, filter_added, events0, events1, rxq,
                   in_flight, hist, bus, iter_consumed>>

\* any of the checked setup calls fails: main returns
SetupStepFail ==
    /\ pc \in {"can_ready", "add_filter", "can_start", "btn_ready",
               "pin_configure", "int_configure"}
    /\ pc' = "returned"
    /\ setup_trace' = Append(setup_trace, <<pc, "failed">>)
    /\ UNCHANGED <<tx_queue_sem, btn_sem, filter_added, events0, events1, rxq,
                   in_flight, hist, bus, iter_consumed>>

\* can_add_rx_filter_msgq(dev, &rxq, &filter) succeeds
AddFilter ==
    /\ pc = "add_filter"
    /\ filter_added' = TRUE
    /\ pc' = SetupNext(pc)
    /\ setup_trace' = Append(setup_trace, <<pc, "ok">>)
    /\ UNCHANGED <<tx_queue_sem, btn_sem, events0, events1, rxq, in_flight, hist,
                   bus, iter_consumed>>

\* k_sem_init(&btn_cb_ctx.sem, 0, 1)
BtnSemInit ==
    /\ pc = "btn_sem_init"
    /\ btn_sem' = k_sem_init(0, 1)
    /\ pc' = SetupNext(pc)
    /\ setup_trace' = Append(setup_trace, <<pc, "ok">>)
    /\ UNCHANGED <<tx_queue_sem, filter_added, events0, events1, rxq, in_flight,
                   hist, bus, iter_consumed>>

\* gpio_init_callback + gpio_add_callback, then the events array
AddCallback ==
    /\ pc = "add_callback"
    /\ events0' = K_POLL_STATE_NOT_READY
    /\ events1' = K_POLL_STATE_NOT_READY
    /\ pc' = SetupNext(pc)
    /\ setup_trace' = Append(setup_trace, <<pc, "ok">>)
    /\ UNCHANGED <<tx_queue_sem, btn_sem, filter_added, rxq, in_flight, hist, bus,
                   iter_consumed>>


(***************************************************************************)
(* Interrupt-context producers.                                            *)
(***************************************************************************)
\* mutant: a signalled object does not ready the polling thread
handle_poll_events_lost(p) == p

\* position of main after a kernel object it polls on was signalled
\* (z_handle_obj_poll_events readies a thread pending in k_poll)
handle_poll_events(p) == IF p \in PollingPcs THEN "woken" ELSE p

\* state of a poll event after its object was signalled: only an event the
\* thread is registered on is marked ready
signal_poll_event(p, old, state) ==
    IF p \in PollingPcs THEN set_event_ready(old, state) ELSE old

\* button_callback (main.c:56-63), installed by gpio_add_callback
button_callback ==
    /\ pc \in LoopPcs
    /\ edges < MaxEdges
    /\ btn_sem' = k_sem_give(btn_sem)
    /\ events0' = signal_poll_event(pc, events0, K_POLL_STATE_SEM_AVAILABLE)
    /\ pc' = handle_poll_events(pc)
    /\ edges' = edges + 1
    /\ coalesced' = coalesced + 1
    /\ UNCHANGED <<tx_queue_sem, filter_added, events1, rxq, in_flight, claims,
                   sent_ok, sent_err, gives, log_enqueued, log_failed, arrivals,
                   enqueued, reported, bus, setup_trace, iter_consumed>>

\* k_msgq_put(&rxq, f, K_NO_WAIT) by the controller: dropped when rxq is full
k_msgq_put_ok(q) == Len(q) < RXQ_MAX_MSGS
k_msgq_put(q, f) == Append(q, f)

\* whether the controller puts frame f into rxq for the filter installed by
\* can_add_rx_filter_msgq(dev, &rxq, &filter)
rx_filter_accepts(f) == can_filter_match(f, filter)

\* frame f is seen on the bus: the controller puts it into rxq when it
\* passes the installed filter (dropping it when rxq is full) and discards
\* it otherwise
FrameArrive(f) ==
    /\ filter_added
    /\ bus' = f
    /\ arrivals' = arrivals + 1
    /\ IF rx_filter_accepts(f) /\ k_msgq_put_ok(rxq)
       THEN /\ rxq' = k_msgq_put(rxq, f)
            /\ enqueued' = Append(enqueued, f)
            /\ events1' = signal_poll_event(pc, events1,
                                            K_POLL_STATE_MSGQ_DATA_AVAILABLE)
            /\ pc' = handle_poll_events(pc)
       ELSE UNCHANGED <<rxq, enqueued, events1, pc>>
    /\ UNCHANGED <<tx_queue_sem, btn_sem, filter_added, events0, in_flight,
                   edges, coalesced, claims, sent_ok, sent_err, gives,
                   log_enqueued, log_failed, reported, setup_trace,
                   iter_consumed>>

\* a frame on the bus passes the installed filter and is put into rxq
FrameAccepted ==
    /\ arrivals < MaxArrivals
    /\ \E f \in BusFrames : rx_filter_accepts(f) /\ FrameArrive(f)

\* a frame on the bus does not pass the filter: the controller discards it
FrameFiltered ==
    /\ arrivals < MaxArrivals
    /\ \E f \in BusFrames : ~rx_filter_accepts(f) /\ FrameArrive(f)

\* mutant: the slot is given back only when the transmission succeeded
can_tx_callback_on_success(error, user_data) ==
    IF error = 0 THEN [sem |-> k_sem_give(user_data), gives |-> 1]
    ELSE [sem |-> user_data, gives |-> 0]

\* can_tx_callback (main.c:67-76): one k_sem_give on user_data, whatever
\* the error; "gives" counts the k_sem_give calls it makes
can_tx_callback(error, user_data) == [sem |-> k_sem_give(user_data), gives |-> 1]

\* the controller finishes a frame accepted by can_send (with or without an
\* error) and calls the completion callback once
TxComplete ==
    /\ in_flight > 0
    /\ \E error \in {0, -5} :
        /\ tx_queue_sem' = can_tx_callback(error, tx_queue_sem).sem
        /\ gives' = gives + can_tx_callback(error, tx_queue_sem).gives
    /\ in_flight' = in_flight - 1
    /\ UNCHANGED <<pc, btn_sem, filter_added, events0, events1, rxq, edges,
                   coalesced, claims, sent_ok, sent_err, log_enqueued,
                   log_failed, arrivals, enqueued, reported, bus, setup_trace,
                   iter_consumed>>

(***************************************************************************)
(* The dispatcher loop (main.c:163-191).                                   *)
(***************************************************************************)
\* k_poll(events, 2, K_FOREVER) finds a condition met and returns 0
KPollReady ==
    /\ pc = "k_poll"
    /\ k_sem_take_ok(btn_sem) \/ Len(rxq) > 0
    /\ events0' = IF k_sem_take_ok(btn_sem)
                  THEN set_event_ready(events0, K_POLL_STATE_SEM_AVAILABLE)
                  ELSE events0
    /\ events1' = IF Len(rxq) > 0
                  THEN set_event_ready(events1, K_POLL_STATE_MSGQ_DATA_AVAILABLE)
                  ELSE events1
    /\ pc' = "check0"
    /\ UNCHANGED <<tx_queue_sem, btn_sem, filter_added, rxq, in_flight, hist, bus,
                   setup_trace, iter_consumed>>

\* mutant: k_poll with K_NO_WAIT returns at once when no condition is met
KPollBlock_no_wait ==
    /\ pc = "k_poll"
    /\ ~(k_sem_take_ok(btn_sem) \/ Len(rxq) > 0)
    /\ pc' = "check0"
    /\ UNCHANGED <<tx_queue_sem, btn_sem, filter_added, events0, events1, rxq,
                   in_flight, hist, bus, setup_trace, iter_consumed>>

\* k_poll finds no condition met: the thread registers on both events and pends
KPollBlock ==
    /\ pc = "k_poll"
    /\ ~(k_sem_take_ok(btn_sem) \/ Len(rxq) > 0)
    /\ pc' = "blocked"
    /\ UNCHANGED <<tx_queue_sem, btn_sem, filter_added, events0, events1, rxq,
                   in_flight, hist, bus, setup_trace, iter_consumed>>

\* the readied thread runs again: k_poll returns 0
KPollWake ==
    /\ pc = "woken"
    /\ pc' = "check0"
    /\ UNCHANGED <<tx_queue_sem, btn_sem, filter_added, events0, events1, rxq,
                   in_flight, hist, bus, setup_trace, iter_consumed>>

\* if (events[0].state == K_POLL_STATE_SEM_AVAILABLE)  (main.c:167)
CheckEvent0 ==
    /\ pc = "check0"
    /\ pc' = IF events0 = K_POLL_STATE_SEM_AVAILABLE THEN "take" ELSE "check1"
    /\ UNCHANGED <<tx_queue_sem, btn_sem, filter_added, events0, events1, rxq,
                   in_flight, hist, bus, setup_trace, iter_consumed>>

\* if (k_sem_take(&btn_cb_ctx.sem, K_NO_WAIT) == 0)  (main.c:168)
TakeEdge ==
    /\ pc = "take"
    /\ IF k_sem_take_ok(btn_sem)
       THEN /\ btn_sem' = k_sem_take(btn_sem)
            /\ claims' = claims + 1
            /\ coalesced' = 0
            /\ iter_consumed' = iter_consumed + 1
            /\ pc' = "send"
       ELSE /\ pc' = "reset"
            /\ UNCHANGED <<btn_sem, claims, coalesced, iter_consumed>>
    /\ UNCHANGED <<tx_queue_sem, filter_added, events0, events1, rxq, in_flight,
                   edges, sent_ok, sent_err, gives, log_enqueued, log_failed,
                   arrivals, enqueued, reported, bus, setup_trace>>

\* mutant: a unit of tx_queue_sem is taken for every submitted frame
CanSendOk_takes_slot ==
    /\ pc = "send"
    /\ in_flight < MaxMailboxes
    /\ k_sem_take_ok(tx_queue_sem)
    /\ tx_queue_sem' = k_sem_take(tx_queue_sem)
    /\ in_flight' = in_flight + 1
    /\ sent_ok' = sent_ok + 1
    /\ log_enqueued' = log_enqueued + 1
    /\ pc' = "reset"
    /\ UNCHANGED <<btn_sem, filter_added, events0, events1, rxq,
                   edges, coalesced, claims, sent_err, gives, log_failed,
                   arrivals, enqueued, reported, bus, setup_trace, iter_consumed>>

\* can_send(dev, &frame, K_NO_WAIT, can_tx_callback, &tx_queue_sem) returns 0:
\* the controller had a free mailbox (main.c:169, 173)
CanSendOk ==
    /\ pc = "send"
    /\ in_flight < MaxMailboxes
    /\ in_flight' = in_flight + 1
    /\ sent_ok' = sent_ok + 1
    /\ log_enqueued' = log_enqueued + 1
    /\ pc' = "reset"
    /\ UNCHANGED <<tx_queue_sem, btn_sem, filter_added, events0, events1, rxq,
                   edges, coalesced, claims, sent_err, gives, log_failed,
                   arrivals, enqueued, reported, bus, setup_trace, iter_consumed>>

\* mutant: a failed can_send keeps a unit of tx_queue_sem
CanSendFail_leak ==
    /\ pc = "send"
    /\ tx_queue_sem' = [tx_queue_sem EXCEPT !.count = tx_queue_sem.count - 1]
    /\ sent_err' = sent_err + 1
    /\ log_failed' = log_failed + 1
    /\ pc' = "reset"
    /\ UNCHANGED <<btn_sem, filter_added, events0, events1, rxq, in_flight,
                   edges, coalesced, claims, sent_ok, gives, log_enqueued,
                   arrivals, enqueued, reported, bus, setup_trace, iter_consumed>>

\* mutant: a failed can_send is tried again
CanSendFail_retry ==
    /\ pc = "send"
    /\ sent_err' = sent_err + 1
    /\ log_failed' = log_failed + 1
    /\ pc' = "send"
    /\ UNCHANGED <<tx_queue_sem, btn_sem, filter_added, events0, events1, rxq,
                   in_flight, edges, coalesced, claims, sent_ok, gives,
                   log_enqueued, arrivals, enqueued, reported, bus, setup_trace,
                   iter_consumed>>

\* mutant: a can_send that waits for a free mailbox instead of failing
CanSendFail_waits_for_mailbox ==
    /\ pc = "send"
    /\ in_flight < MaxMailboxes
    /\ sent_err' = sent_err + 1
    /\ log_failed' = log_failed + 1
    /\ pc' = "reset"
    /\ UNCHANGED <<tx_queue_sem, btn_sem, filter_added, events0, events1, rxq,
                   in_flight, edges, coalesced, claims, sent_ok, gives,
                   log_enqueued, arrivals, enqueued, reported, bus, setup_trace,
                   iter_consumed>>

\* can_send returns an error (no free mailbox, bus off, ...): the callback
\* is not called and the failure is logged (main.c:169-171)
CanSendFail ==
    /\ pc = "send"
    /\ sent_err' = sent_err + 1
    /\ log_failed' = log_failed + 1
    /\ pc' = "reset"
    /\ UNCHANGED <<tx_queue_sem, btn_sem, filter_added, events0, events1, rxq,
                   in_flight, edges, coalesced, claims, sent_ok, gives,
                   log_enqueued, arrivals, enqueued, reported, bus, setup_trace,
                   iter_consumed>>

\* mutant: the reset of events[0].state also empties the button semaphore
ResetEvent0_clears_edge ==
    /\ pc = "reset"
    /\ events0' = K_POLL_STATE_NOT_READY
    /\ btn_sem' = [btn_sem EXCEPT !.count = 0]
    /\ pc' = "check1"
    /\ UNCHANGED <<tx_queue_sem, filter_added, events1, rxq, in_flight,
                   hist, bus, setup_trace, iter_consumed>>

\* mutant: events[0].state is left as k_poll set it
ResetEvent0_skipped ==
    /\ pc = "reset"
    /\ pc' = "check1"
    /\ UNCHANGED <<tx_queue_sem, btn_sem, filter_added, events0, events1, rxq,
                   in_flight, hist, bus, setup_trace, iter_consumed>>

\* events[0].state = K_POLL_STATE_NOT_READY  (main.c:176)
ResetEvent0 ==
    /\ pc = "reset"
    /\ events0' = K_POLL_STATE_NOT_READY
    /\ pc' = "check1"
    /\ UNCHANGED <<tx_queue_sem, btn_sem, filter_added, events1, rxq, in_flight,
                   hist, bus, setup_trace, iter_consumed>>

\* if (events[1].state == K_POLL_STATE_MSGQ_DATA_AVAILABLE)  (main.c:179)
CheckEvent1 ==
    /\ pc = "check1"
    /\ pc' = IF events1 = K_POLL_STATE_MSGQ_DATA_AVAILABLE THEN "get" ELSE "k_poll"
    /\ iter_consumed' = IF events1 = K_POLL_STATE_MSGQ_DATA_AVAILABLE
                        THEN iter_consumed ELSE 0
    /\ UNCHANGED <<tx_queue_sem, btn_sem, filter_added, events0, events1, rxq,
                   in_flight, hist, bus, setup_trace>>

\* k_msgq_get(&rxq, &rx_frame, K_NO_WAIT): the oldest message, if any
k_msgq_get_ok(q) == Len(q) > 0

\* mutant: the newest message is taken instead of the oldest
k_msgq_get_newest(q) == [rx_frame |-> q[Len(q)], rest |-> SubSeq(q, 1, Len(q) - 1)]

k_msgq_get(q) == [rx_frame |-> Head(q), rest |-> Tail(q)]

\* mutant: the edge is handled after the drain, in the same iteration
GetFrame_before_edge ==
    /\ pc = "get"
    /\ IF k_msgq_get_ok(rxq)
       THEN /\ rxq' = k_msgq_get(rxq).rest
            /\ reported' = Append(reported, rx_log_line(k_msgq_get(rxq).rx_frame))
       ELSE UNCHANGED <<rxq, reported>>
    /\ pc' = IF events0 = K_POLL_STATE_SEM_AVAILABLE \/ ~k_sem_take_ok(btn_sem)
             THEN "k_poll" ELSE "take"
    /\ iter_consumed' = IF pc' = "k_poll" THEN 0 ELSE iter_consumed + 1
    /\ UNCHANGED <<tx_queue_sem, btn_sem, filter_added, events0, events1,
                   in_flight, edges, coalesced, claims, sent_ok, sent_err, gives,
                   log_enqueued, log_failed, arrivals, enqueued, bus, setup_trace>>

\* the drain of one frame and its log line (main.c:180-188)
GetFrame ==
    /\ pc = "get"
    /\ IF k_msgq_get_ok(rxq)
       THEN /\ rxq' = k_msgq_get(rxq).rest
            /\ reported' = Append(reported, rx_log_line(k_msgq_get(rxq).rx_frame))
       ELSE UNCHANGED <<rxq, reported>>
    /\ iter_consumed' = 0
    /\ pc' = "k_poll"
    /\ UNCHANGED <<tx_queue_sem, btn_sem, filter_added, events0, events1,
                   in_flight, edges, coalesced, claims, sent_ok, sent_err, gives,
                   log_enqueued, log_failed, arrivals, enqueued, bus, setup_trace>>

Setup == SetupStepOk \/ SetupStepFail \/ AddFilter \/ BtnSemInit \/ AddCallback

Dispatcher ==
    \/ KPollReady \/ KPollBlock \/ KPollWake \/ CheckEvent0 \/ TakeEdge
    \/ CanSendOk \/ CanSendFail \/ ResetEvent0 \/ CheckEvent1 \/ GetFrame

Interrupts == button_callback \/ FrameAccepted \/ FrameFiltered \/ TxComplete

Next == Setup \/ Dispatcher \/ Interrupts

Spec == Init /\ [][Next]_vars

\* main is the only thread: once runnable it is scheduled again after the
\* (finitely many) interrupts
LiveSpec == Init /\ [][Next]_vars /\ WF_vars(Setup \/ Dispatcher)

\* every frame with an 11-bit identifier value, of either identifier type
ProbeFrames ==
    [id_type : {CAN_STANDARD_IDENTIFIER, CAN_EXTENDED_IDENTIFIER},
     id : 0..(2^CAN_STD_ID_BITS - 1), rtr : {CAN_DATAFRAME}, dlc : {0},
     data : {NoData}]

\* one frame with an arbitrary identifier is seen on the bus
ProbeArrival ==
    /\ arrivals = 0
    /\ \E f \in ProbeFrames : FrameArrive(f)

\* the receive path alone: setup, one arbitrary frame on the bus, and main
\* with no button edge
FilterNext ==
    \/ Setup \/ ProbeArrival
    \/ KPollReady \/ KPollBlock \/ KPollWake \/ CheckEvent0 \/ CheckEvent1
    \/ GetFrame

FilterSpec == Init /\ [][FilterNext]_vars

TypeOK ==
    /\ pc \in SetupPcs \cup LoopPcs \cup {"returned"}
    /\ in_flight \in 0..MaxMailboxes
    /\ Len(rxq) <= RXQ_MAX_MSGS

attempts == sent_ok + sent_err

(***************************************************************************)
(* Properties.                                                             *)
(***************************************************************************)
pending_send == IF pc = "send" THEN 1 ELSE 0

\* C1 (coalescing): in the loop, btn_cb_ctx.sem holds exactly one unit when
\* one or more edges occurred since the last successful k_sem_take and none
\* otherwise, and every successful take is followed by exactly one can_send
\* call: N >= 1 edges before a claim yield one transmission attempt.
C1_Coalescing ==
    pc \in LoopPcs =>
        /\ btn_sem.count = (IF coalesced >= 1 THEN 1 ELSE 0)
        /\ claims = attempts + pending_send

\* several edges were consumed by a single claim and one can_send call
C1_Witness ==
    /\ edges >= 2
    /\ claims = 1
    /\ attempts = 1
    /\ coalesced = 0

\* C2 (slot bounding, as claimed): the frames in flight never exceed the
\* configured transmit-queue depth, and tx_queue_sem counts the free slots
\* (depth 1: the first successful submit takes the count from 1 to 0).
C2_SlotBounding ==
    pc \in LoopPcs =>
        /\ in_flight <= CONFIG_SAMPLE_CAN_BABBLING_TX_QUEUE_SIZE
        /\ tx_queue_sem.count =
               CONFIG_SAMPLE_CAN_BABBLING_TX_QUEUE_SIZE - in_flight

\* C3 (token accounting, as claimed): when the dispatcher makes a
\* transmission attempt it holds one unit of tx_queue_sem, taken before the
\* can_send call.
C3_UnitConsumedBeforeAttempt ==
    pc = "send" => tx_queue_sem.count < tx_queue_sem.limit

\* C4 (token restoration): every successful submission is either still in
\* flight or has had exactly one k_sem_give by can_tx_callback; the gives
\* never exceed the successful submissions.
C4_OneGivePerSubmission ==
    /\ sent_ok = gives + in_flight
    /\ gives <= sent_ok

\* two submissions were completed and given back
C4_Witness ==
    /\ sent_ok = 2
    /\ gives = 2
    /\ in_flight = 0

\* C5 (token ranges): tx_queue_sem stays within 0..depth and starts at the
\* depth; btn_cb_ctx.sem, once initialised, stays within {0, 1} and is 0
\* until the button callback is installed.
C5_TokenRange ==
    /\ tx_queue_sem.count \in 0..CONFIG_SAMPLE_CAN_BABBLING_TX_QUEUE_SIZE
    /\ pc = "can_ready" =>
           tx_queue_sem.count = CONFIG_SAMPLE_CAN_BABBLING_TX_QUEUE_SIZE
    /\ pc \in BtnSemInitPcs => btn_sem.count \in {0, 1}
    /\ pc \in BtnSemInitPcs \cap SetupPcs => btn_sem.count = 0

\* edges and completions have hit both semaphores at their limits
C5_Witness ==
    /\ edges >= 2
    /\ btn_sem.count = 1
    /\ gives >= 1
    /\ tx_queue_sem.count = CONFIG_SAMPLE_CAN_BABBLING_TX_QUEUE_SIZE

\* C6 (no double-send): a claim succeeds only when an edge occurred since
\* the previous claim, it leaves btn_cb_ctx.sem empty, and the claims never
\* outnumber the edges.
C6_NoDoubleSend ==
    [][claims' # claims =>
          /\ claims' = claims + 1
          /\ coalesced >= 1
          /\ btn_sem.count = 1
          /\ btn_sem'.count = 0
          /\ claims' <= edges]_vars

\* a second claim happened, after a second edge
C6_Witness ==
    /\ claims = 2
    /\ edges = 2
    /\ btn_sem.count = 0

\* C7 (failed transmit is local): a can_send error is logged, leaves both
\* semaphores and the frames in flight as they were, continues with the
\* rest of the iteration, and main never leaves the loop; the dispatcher
\* gets back to k_poll.
C7_FailedSendLocal ==
    /\ [][sent_err' # sent_err =>
              /\ log_failed' = log_failed + 1
              /\ tx_queue_sem' = tx_queue_sem
              /\ btn_sem' = btn_sem
              /\ in_flight' = in_flight
              /\ pc' = "reset"]_vars
    /\ [][(pc \in LoopPcs) => (pc' \in LoopPcs)]_vars
    /\ \A n \in 1..MaxEdges :
           (sent_err = n /\ pc = "reset") ~> (sent_err = n /\ pc = "k_poll")

\* after a failed attempt the dispatcher is back in the wait
C7_Witness ==
    /\ sent_err >= 1
    /\ log_failed = sent_err
    /\ pc = "blocked"

\* C8 (no missed wakeups): main never pends in k_poll while a source is
\* ready; a thread readied by an edge makes a transmission attempt and one
\* readied by a frame drains a frame.
C8_NoMissedWakeup ==
    /\ [](pc = "blocked" => btn_sem.count = 0 /\ rxq = <<>>)
    /\ \A n \in 0..MaxEdges :
           (pc = "woken" /\ btn_sem.count > 0 /\ attempts = n)
               ~> (attempts > n)
    /\ \A k \in 0..MaxArrivals :
           (pc = "woken" /\ Len(rxq) > 0 /\ Len(reported) = k)
               ~> (Len(reported) > k)

\* the blocked thread was readied by both sources
C8_Witness ==
    /\ pc = "woken"
    /\ btn_sem.count > 0
    /\ Len(rxq) > 0

\* C9 (receive backlog drains): rxq is always the not yet reported suffix of
\* the frames enqueued (FIFO), a step removes at most one frame and leads
\* to the next k_poll, and in the loop every enqueued frame is eventually
\* reported.
C9_BacklogDrains ==
    /\ [](rxq = SubSeq(enqueued, Len(reported) + 1, Len(enqueued)))
    /\ [][Len(rxq') < Len(rxq) =>
              /\ Len(rxq') = Len(rxq) - 1
              /\ Len(reported') = Len(reported) + 1
              /\ pc = "get"
              /\ pc' = "k_poll"]_vars
    /\ \A i \in 1..MaxArrivals :
           (pc \in LoopPcs /\ Len(enqueued) >= i) ~> (Len(reported) >= i)

\* a backlog of two frames was drained while edges were handled
C9_Witness ==
    /\ Len(reported) = 2
    /\ rxq = <<>>
    /\ attempts >= 1
    /\ enqueued[1] # enqueued[2]

\* the identifier type a log line shows: the width of the identifier
LoggedIdType(line) ==
    IF line.width = 3 THEN CAN_STANDARD_IDENTIFIER ELSE CAN_EXTENDED_IDENTIFIER

\* C10 (receive fidelity): the i-th reported frame carries the identifier,
\* identifier type, remote-frame flag, data-length code and payload of the
\* i-th enqueued frame; reported and buffered frames together are exactly
\* the enqueued ones.
C10_ReceiveFidelity ==
    /\ Len(reported) + Len(rxq) = Len(enqueued)
    /\ \A i \in 1..Len(reported) :
           /\ reported[i].id = enqueued[i].id
           /\ LoggedIdType(reported[i]) = enqueued[i].id_type
           /\ reported[i].rtr = enqueued[i].rtr
           /\ reported[i].dlc = enqueued[i].dlc
           /\ reported[i].data = enqueued[i].data

\* two different frames were enqueued and both reported
C10_Witness ==
    /\ Len(reported) = 2
    /\ reported[1].id # reported[2].id
    /\ reported[1].data # reported[2].data

\* bit k of n
Bit(n, k) == (n \div (2^k)) % 2

\* ((id XOR fid) AND mask) = 0, bit by bit
MaskedEqual(id, fid, mask) ==
    \A k \in 0..(CAN_STD_ID_BITS - 1) :
        Bit(mask, k) = 1 => Bit(id, k) = Bit(fid, k)

\* C11 (acceptance filter): a standard frame seen on the bus is put into
\* rxq if and only if ((id XOR 0x7cd) AND 0x7cd) = 0 (0x7cd = 1997), an
\* extended frame never is; only such frames are reported, and a frame with
\* id 0x3cd (973) neither reaches rxq nor is reported.
C11_AcceptanceFilter ==
    /\ (bus # NoFrame /\ bus.id_type = CAN_STANDARD_IDENTIFIER) =>
           (enqueued = <<bus>> <=> MaskedEqual(bus.id, 1997, 1997))
    /\ (bus # NoFrame /\ ~MaskedEqual(bus.id, 1997, 1997)) => enqueued = <<>>
    /\ (bus # NoFrame /\ bus.id_type = CAN_EXTENDED_IDENTIFIER) => enqueued = <<>>
    /\ \A i \in 1..Len(rxq) : rxq[i].id # 973
    /\ \A i \in 1..Len(reported) :
           reported[i].id # 973 /\ MaskedEqual(reported[i].id, 1997, 1997)

\* the frame with id 0x7cd was seen on the bus, drained and reported
C11_Witness ==
    /\ bus # NoFrame
    /\ bus.id = 1997
    /\ Len(reported) = 1
    /\ reported[1].id = 1997

\* the setup calls of main.c:93-140, all successful, in program order
AllSetupOk ==
    << <<"can_ready", "ok">>, <<"add_filter", "ok">>, <<"can_start", "ok">>,
       <<"btn_sem_init", "ok">>, <<"btn_ready", "ok">>, <<"pin_configure", "ok">>,
       <<"int_configure", "ok">>, <<"add_callback", "ok">> >>

SetupFailed == \E i \in 1..Len(setup_trace) : setup_trace[i][2] = "failed"

\* C12 (fatal setup errors): a failed setup call makes main return at once;
\* after the return there has been no button claim, no can_send and no drain
\* of rxq; no setup call is made twice; and main is in the loop only after
\* every setup call succeeded once, in order, the filter among them.
C12_FatalSetupErrors ==
    /\ SetupFailed <=> pc = "returned"
    /\ SetupFailed =>
           /\ setup_trace[Len(setup_trace)][2] = "failed"
           /\ \A i \in 1..(Len(setup_trace) - 1) : setup_trace[i][2] = "ok"
           /\ claims = 0
           /\ attempts = 0
           /\ reported = <<>>
    /\ \A i, j \in 1..Len(setup_trace) :
           i # j => setup_trace[i][1] # setup_trace[j][1]
    /\ pc \in LoopPcs => (setup_trace = AllSetupOk /\ filter_added)
    /\ filter_added <=>
           (\E i \in 1..Len(setup_trace) : setup_trace[i] = <<"add_filter", "ok">>)

\* main returned on a failed interrupt configuration, with a frame left in rxq
C12_Witness ==
    /\ pc = "returned"
    /\ setup_trace[Len(setup_trace)] = <<"int_configure", "failed">>
    /\ rxq # <<>>

\* C13 (at most one attempt per edge, no retry): the can_send calls made or
\* about to be made, plus the edges not yet claimed, never exceed the button
\* edges delivered; so a further attempt needs a further edge.
C13_AtMostOnePerEdge ==
    /\ attempts <= edges
    /\ attempts + pending_send + coalesced <= edges

\* the only edge gave one failed attempt and main is back in the wait
C13_Witness ==
    /\ edges = 1
    /\ sent_err = 1
    /\ attempts = 1
    /\ pc = "blocked"

\* C14 (drain failure unreachable, as claimed): whenever the dispatcher
\* calls k_msgq_get, rxq holds a frame.
C14_DrainNeverEmpty ==
    pc = "get" => k_msgq_get_ok(rxq)

\* positions of main between the return of k_poll and the next call of it
DispatchingPcs == {"check0", "take", "send", "reset", "check1", "get"}

\* C15 (blocks only in the combined wait): past k_poll a step of main is
\* always possible, whatever the interrupts do or fail to do (also with all
\* mailboxes busy and with rxq empty), and main gets to the next k_poll call.
C15_BlocksOnlyInWait ==
    /\ [](pc \in DispatchingPcs \cup {"woken", "k_poll"} => ENABLED Dispatcher)
    /\ (pc \in DispatchingPcs) ~> (pc = "k_poll")

\* main is at can_send with every mailbox busy
C15_Witness ==
    /\ pc = "send"
    /\ in_flight = MaxMailboxes
    /\ rxq = <<>>

\* C16 (edge wait-condition reset): while the edge is handled events[0] is
\* SEM_AVAILABLE; it is set back to NOT_READY by the one statement after
\* the claim and the transmission, whatever their outcome, and is NOT_READY
\* for the rest of the iteration and in the next wait; a k_poll call made
\* with no new edge and an empty rxq blocks.
C16_EdgeConditionReset ==
    /\ [](pc \in {"take", "send", "reset"} =>
              events0 = K_POLL_STATE_SEM_AVAILABLE)
    /\ [](pc \in {"check1", "get", "k_poll", "blocked"} =>
              events0 = K_POLL_STATE_NOT_READY)
    /\ [][(events0 = K_POLL_STATE_SEM_AVAILABLE
              /\ events0' = K_POLL_STATE_NOT_READY)
              => (pc = "reset" /\ pc' = "check1")]_vars
    /\ [][(pc = "k_poll" /\ pc' # "k_poll" /\ coalesced = 0 /\ rxq = <<>>)
              => (pc' = "blocked" /\ attempts' = attempts)]_vars

\* a failed and a successful attempt were handled and main blocks again
C16_Witness ==
    /\ pc = "blocked"
    /\ sent_ok = 1
    /\ sent_err = 1
    /\ coalesced = 0
    /\ events0 = K_POLL_STATE_NOT_READY

\* order of the positions of main within one loop iteration
IterRank(p) ==
    CASE p = "check0" -> 1
      [] p = "take" -> 2
      [] p = "send" -> 3
      [] p = "reset" -> 4
      [] p = "check1" -> 5
      [] p = "get" -> 6
      [] OTHER -> 0

\* C17 (transmit before receive): within an iteration main only moves
\* forward through edge test, claim, can_send, reset, queue test and drain;
\* can_send is called only at its place before the queue test, and a drain
\* is the last step of its iteration.
C17_TransmitBeforeReceive ==
    /\ [][(pc \in LoopPcs /\ pc' # pc /\ IterRank(pc') # 0)
              => IterRank(pc') > IterRank(pc)]_vars
    /\ [][attempts' # attempts => (pc = "send" /\ pc' = "reset")]_vars
    /\ [][(Len(rxq') < Len(rxq) \/ reported' # reported)
              => (pc = "get" /\ IterRank(pc') = 0)]_vars

\* main is about to drain a frame in an iteration that has claimed an edge
C17_Witness ==
    /\ pc = "get"
    /\ iter_consumed = 1
    /\ rxq # <<>>
    /\ attempts >= 1

\* C18 (tx_queue_sem is never taken): the count of tx_queue_sem always equals
\* CONFIG_SAMPLE_CAN_BABBLING_TX_QUEUE_SIZE, every give of can_tx_callback
\* leaves it unchanged, and a submission depends only on the controller
\* having a free mailbox, whatever the semaphore holds.
C18_TxSemNeverTaken ==
    /\ [](tx_queue_sem = k_sem_init(CONFIG_SAMPLE_CAN_BABBLING_TX_QUEUE_SIZE,
                                    CONFIG_SAMPLE_CAN_BABBLING_TX_QUEUE_SIZE))
    /\ [][gives' > gives => tx_queue_sem' = tx_queue_sem]_vars
    /\ [][in_flight' > in_flight => (pc = "send" /\ tx_queue_sem' = tx_queue_sem)]_vars
    /\ []((pc = "send" /\ in_flight < MaxMailboxes) => ENABLED CanSendOk)

\* more frames in flight than the semaphore has units, after a give
C18_Witness ==
    /\ in_flight > CONFIG_SAMPLE_CAN_BABBLING_TX_QUEUE_SIZE
    /\ gives >= 1
    /\ tx_queue_sem.count = CONFIG_SAMPLE_CAN_BABBLING_TX_QUEUE_SIZE

\* C19 (an edge during dispatch is not lost): an edge given after the claim
\* of the current iteration stays in the button semaphore across the reset of
\* events[0].state, the next k_poll returns without blocking with the
\* semaphore event ready, and one more can_send attempt follows.
C19_EdgeDuringDispatchKept ==
    /\ [][(pc = "reset" /\ pc' = "check1") => btn_sem' = btn_sem]_vars
    /\ [][(pc \in DispatchingPcs /\ pc' \in DispatchingPcs)
              => btn_sem'.count >= btn_sem.count - (IF pc = "take" THEN 1 ELSE 0)]_vars
    /\ [][(pc = "k_poll" /\ pc' # "k_poll" /\ btn_sem.count = 1)
              => (pc' = "check0" /\ events0' = K_POLL_STATE_SEM_AVAILABLE)]_vars
    /\ \A n \in 0..MaxEdges :
          (pc \in {"send", "reset", "check1", "get"} /\ btn_sem.count = 1 /\ claims = n)
              ~> (attempts > n)

\* the reset is done and the edge given during the dispatch is still held
C19_Witness ==
    /\ pc = "check1"
    /\ events0 = K_POLL_STATE_NOT_READY
    /\ btn_sem.count = 1
    /\ claims = 1
    /\ attempts = 1
    /\ edges = 2

\* C20 (no empty iteration): every iteration that ends has taken the button
\* semaphore or drained a frame; with the button semaphore empty and rxq
\* empty k_poll blocks, the blocked dispatcher has no step, and only an edge
\* or a frame arrival ends the block.
C20_NoEmptyIteration ==
    /\ [][(pc \in {"check1", "get"} /\ pc' = "k_poll")
              => (iter_consumed >= 1 \/ Len(reported') > Len(reported))]_vars
    /\ [][(pc = "k_poll" /\ pc' # "k_poll" /\ btn_sem.count = 0 /\ rxq = <<>>)
              => pc' = "blocked"]_vars
    /\ [](pc = "blocked" => (btn_sem.count = 0 /\ rxq = <<>> /\ ~ENABLED Dispatcher))
    /\ [][(pc = "blocked" /\ pc' # "blocked")
              => (edges' > edges \/ arrivals' > arrivals)]_vars

\* the drain finds rxq empty in an iteration that has taken the button semaphore
C20_Witness ==
    /\ pc = "get"
    /\ rxq = <<>>
    /\ iter_consumed = 1
    /\ Len(reported) >= 1

=============================================================================
